---- MODULE Spec2Model ----
(***************************************************************************)
(* A model of the tun_tap crate: the blocking Iface (src/src/lib.rs) and   *)
(* its tokio adapter Async (src/src/async.rs), together with the parts of  *)
(* their environment that the code calls into: the kernel side of the      *)
(* TUN/TAP descriptor (read(2)/write(2) of whole packets) and the          *)
(* readiness source of tokio_core (PollEvented and the reactor).           *)
(***************************************************************************)
EXTENDS Integers, Sequences, FiniteSets, TLC

(* ------------------------------ bounds -------------------------------- *)
\* Packets the kernel hands to the interface in one run.
MaxPackets == 2
\* Largest buffer size a caller configures explicitly (1..MaxBuf).
MaxBuf == 1
\* Packets the writing side submits in one run.
MaxSend == 2
\* Highest unit number the kernel picks for a name placeholder.
MaxUnit == 1
\* Creation attempts that get as far as opening the control device.
MaxCreate == 2

(* ------------------------- program constants -------------------------- *)
\* async.rs:108  "the interface's MTU is changed from the default 1500"
DefaultMTU == 1500
\* lib.rs:48     "prefixed with 4-byte header"
HeaderLen == 4
\* A default that leaves no room for the packet-info header.
RecvBufsize_bare_mtu == DefaultMTU
\* async.rs:99   recv_bufsize: 1542
DefaultRecvBufsize == 1542
\* The longest interface name the kernel stores (IFNAMSIZ - 1).
IfNameMax == 15

VARIABLES
    owner,         \* who owns the handle: "iface" (an Iface) or "async" (an Async)
    nonblock,      \* the descriptor's non-blocking flag (FIONBIO)
    rxq,           \* packets queued by the kernel for read(2), oldest first
    nprod,         \* number of packets the kernel has produced so far
    writable,      \* the kernel's transmit path has room for a packet
    nwire,         \* number of packets the kernel accepted through write(2)
    lastTx,        \* the last packet the kernel accepted through write(2)
    evRd, evWr,    \* edge-triggered readiness events not yet seen by the reactor
    recv_bufsize,  \* Async.recv_bufsize
    rdReady, wrReady,        \* PollEvented's readiness bits, per direction
    rdTask, wrTask,          \* a task is registered to be notified, per direction
    rdState, wrState,        \* the reading / writing task: "none" (no task yet),
                             \* "runnable", "parked" (got NotReady), "failed" (got Err),
                             \* "ended" (got Ready(None)),
                             \* "dropped" (dropped by its owner while parked)
    last,          \* the most recent call of the API: what it returned and did
    ndeliv,        \* number of packets handed to the reader
    nitem,         \* number of packets whose send call is finished (Ok or Err)
    held,          \* the packet the writing side holds and submits next
    naccepted,     \* number of packets reported accepted to the writer
    mode,          \* Iface.mode
    name,          \* Iface.name, a sequence of characters
    packet_info,   \* the device prepends / expects the packet-info header
    req,           \* what creation asked for and what the kernel answered
    nopen,         \* descriptors opened for the device so far (open, dup)
    nclose,        \* descriptors of the device closed so far
    registered,    \* the descriptor is registered with the reactor
    nreg,          \* registrations of the descriptor made so far
    dup,           \* the duplicated handle: "none", "iface" or "closed"
    shortw         \* write(2) on the descriptor may take fewer bytes than offered

vars == <<owner, nonblock, rxq, nprod, writable, nwire, lastTx, evRd, evWr,
          recv_bufsize, rdReady, wrReady, rdTask, wrTask, rdState, wrState,
          last, ndeliv, nitem, held, naccepted,
          mode, name, packet_info, req, nopen, nclose, registered, nreg, dup,
          shortw>>

devVars  == <<rxq, nprod, writable, nwire, lastTx>>
peVars   == <<rdReady, wrReady, rdTask, wrTask, evRd, evWr>>
rdVars   == <<ndeliv, rdState>>
wrVars   == <<nitem, held, naccepted, wrState>>
ifaceVars == <<mode, name, packet_info, req, shortw>>
fdVars   == <<nopen, nclose, registered, nreg, dup>>

(* ------------------------------- data --------------------------------- *)
Min(a, b) == IF a <= b THEN a ELSE b

\* Genuine I/O errors of read(2)/write(2) (std::io::Error kinds other than WouldBlock).
IoErrors == {"EIO", "EBADFD"}

\* io::Result<usize>
Ok(n)  == [tag |-> "Ok",  n |-> n, err |-> "none"]
Err(e) == [tag |-> "Err", n |-> 0, err |-> e]
IsWouldBlock(r) == r.tag = "Err" /\ r.err = "WouldBlock"

\* The k-th packet the kernel produces, of length L: non-zero bytes, all
\* different inside a packet and different from the bytes of its neighbours.
KernelPacket(k, L) == [i \in 1..L |-> ((16 * k + i) % 255) + 1]
\* Lengths of the short packets the kernel produces: an empty one, one that
\* just fits the largest configured buffer, and one that is a byte too long.
PacketLens == {0, MaxBuf, MaxBuf + 1}
\* The longest packet of a default-MTU Tun device with packet info.
FullPacketLen == DefaultMTU + HeaderLen
\* Explicitly chosen buffer sizes.
BufSizes == 1..MaxBuf
\* Buffers the callers of the blocking recv bring (dump_iface.rs:36 uses MTU + 4).
CallerBufs == BufSizes \cup {DefaultMTU + HeaderLen}
\* The k-th packet the writing side submits.
SendItem(k) == [i \in 1..k |-> 100 + 16 * k + i]

\* A byte buffer that was allocated zeroed, as its length and the bytes written
\* to its start; the bytes behind them are still zero.
\* vec![0; n]
VecZero(n) == [len |-> n, head |-> <<>>]
\* slice::len
Size(buf) == buf.len
\* The buffer after a read that copied the bytes `data` to its start.
Filled(buf, data) ==
    [buf EXCEPT !.head = data \o SubSeq(buf.head, Len(data) + 1, Len(buf.head))]
\* Vec::resize(n, 0), as the sequence of bytes the vector then holds.
Resize(buf, n) == [i \in 1..n |-> IF i <= Len(buf.head) THEN buf.head[i] ELSE 0]
\* &buf[..n]
Slice(buf, n) == Resize(buf, Min(n, buf.len))

(* ------------------- the descriptor: read(2), write(2) ---------------- *)
\* read(2) on the TUN/TAP descriptor: one call takes one whole packet off the
\* queue and copies as much of it as fits to the start of the buffer (data); the
\* rest of that packet is dropped. With nothing queued a non-blocking descriptor
\* reports WouldBlock and a blocking one does not return (no outcome).
DevRead(buf) ==
    {[res |-> Err(e), data |-> <<>>, rxq |-> rxq] : e \in IoErrors}
    \cup
    (IF rxq = <<>>
       THEN IF nonblock
              THEN {[res |-> Err("WouldBlock"), data |-> <<>>, rxq |-> rxq]}
              ELSE {}
       ELSE LET n == Min(Len(Head(rxq)), Size(buf)) IN
            {[res |-> Ok(n), data |-> SubSeq(Head(rxq), 1, n), rxq |-> Tail(rxq)]})

\* write(2) on the descriptor: one call submits one packet. Whether the
\* transmit path still has room afterwards is the kernel's business. On a
\* descriptor that may write short, a call may also take only the first n
\* bytes offered and return n; these are then all the kernel has of the packet.
DevWrite(p) ==
    {[res |-> Err(e), nwire |-> nwire, lastTx |-> lastTx, writable |-> writable]
        : e \in IoErrors}
    \cup
    (IF ~writable
       THEN IF nonblock
              THEN {[res |-> Err("WouldBlock"), nwire |-> nwire, lastTx |-> lastTx,
                     writable |-> writable]}
              ELSE {}
       ELSE {[res |-> Ok(n), nwire |-> nwire + 1, lastTx |-> SubSeq(p, 1, n),
              writable |-> w]
                : n \in (IF shortw THEN 0..Len(p) ELSE {Len(p)}), w \in BOOLEAN})

(* ------------------------------- Iface -------------------------------- *)
\* A recv that keeps reading while the buffer has room (read_exact-like): the
\* next queued packet lands in the same buffer.
Iface_recv_exact(buf) ==
    {IF o.res.tag = "Ok" /\ o.rxq # <<>> /\ o.res.n < Size(buf)
       THEN LET p == Head(o.rxq)
                m == Min(Len(p), Size(buf) - o.res.n)
            IN  [res |-> Ok(o.res.n + m),
                 data |-> o.data \o SubSeq(p, 1, m),
                 rxq |-> Tail(o.rxq)]
       ELSE o : o \in DevRead(buf)}

\* A recv on a byte stream: what does not fit stays queued for the next call.
Iface_recv_stream(buf) ==
    {IF o.res.tag = "Ok" /\ Len(Head(rxq)) > Size(buf)
       THEN [o EXCEPT !.rxq = <<SubSeq(Head(rxq), Size(buf) + 1, Len(Head(rxq)))>>
                                \o o.rxq]
       ELSE o : o \in DevRead(buf)}

\* Iface::recv
Iface_recv(buf) == DevRead(buf)
\* Iface::send
Iface_send(p) == DevWrite(p)

(* --------------------------- Iface creation --------------------------- *)
\* Mode
Modes == {"Tun", "Tap"}
\* The NUL byte that ends a C string.
NUL == "\\0"
\* Interface names the callers ask for: none, a template with a number
\* placeholder, a plain name, and one longer than the kernel stores.
RequestedNames ==
    {<<>>, <<"v", "p", "n", "%d">>, <<"t", "u", "n", "9">>,
     [i \in 1..(IfNameMax + 2) |-> "x"]}
\* name_buffer: the requested name followed by 33 zero bytes
NameBuffer(ifname) == ifname \o [i \in 1..33 |-> NUL]
\* CStr::from_ptr(..).to_string_lossy(): the bytes before the first NUL
CStr(buf) ==
    LET nuls == {i \in 1..Len(buf) : buf[i] = NUL} IN
    SubSeq(buf, 1, (CHOOSE i \in nuls : \A j \in nuls : i <= j) - 1)
\* The unit numbers the kernel may find unused.
KernelUnits == 0..MaxUnit
Digit(n) == CASE n = 0 -> "0" [] n = 1 -> "1" [] n = 2 -> "2" [] OTHER -> "3"
\* The name the kernel gives the device: an empty request becomes the mode's
\* template, the placeholder becomes the unit number, and the result is cut
\* to the length the kernel stores.
KernelName(ifname, m, n) ==
    LET template == IF ifname = <<>>
                      THEN IF m = "Tun" THEN <<"t", "u", "n", "%d">>
                                        ELSE <<"t", "a", "p", "%d">>
                      ELSE ifname
        full == [i \in 1..Len(template) |->
                    IF template[i] = "%d" THEN Digit(n) ELSE template[i]]
    IN  SubSeq(full, 1, Min(Len(full), IfNameMax))
\* Errors of open("/dev/net/tun") and of the configuration call.
OpenErrors == {"ENOENT", "EACCES"}
SetupErrors == {"EBUSY", "EPERM"}
\* OpenOptions::new().read(true).write(true).open("/dev/net/tun")
OpenControl == {Err(e) : e \in OpenErrors} \cup {Ok(0)}
\* { if packet_info { 1 } else { 0 } }
PiFlag(pi) == IF pi THEN 1 ELSE 0
\* tuntap_setup(fd, name, mode, packet_info): on failure the result is negative,
\* errno says why and the buffer is untouched; on success the device exists
\* with the given mode, it uses the packet-info header unless the flag is zero,
\* and the kernel's name for it is written over the start of the buffer,
\* NUL-padded.
tuntap_setup(buf, m, flag) ==
    {[result |-> -1, errno |-> e, buf |-> buf, kname |-> <<>>, pi |-> FALSE]
        : e \in SetupErrors}
    \cup
    {LET kname == KernelName(CStr(buf), m, n) IN
     [result |-> 0, errno |-> "none",
      buf |-> [i \in 1..Len(buf) |->
                  IF i <= Len(kname) THEN kname[i]
                  ELSE IF i <= IfNameMax + 1 THEN NUL ELSE buf[i]],
      kname |-> kname, pi |-> (flag # 0)] : n \in KernelUnits}

\* with_options keeping the name it was asked for.
with_options_requested_name(ifname, m, pi) ==
    {[res |-> Err(o.err), opened |-> 0, closed |-> 0, mode |-> "none",
      name |-> <<>>, kname |-> <<>>, pi |-> FALSE] : o \in {x \in OpenControl : x.tag = "Err"}}
    \cup
    {IF r.result < 0
       THEN [res |-> Err(r.errno), opened |-> 1, closed |-> 1, mode |-> "none",
             name |-> <<>>, kname |-> <<>>, pi |-> FALSE]
       ELSE [res |-> Ok(0), opened |-> 1, closed |-> 0, mode |-> m,
             name |-> ifname, kname |-> r.kname, pi |-> r.pi]
        : r \in tuntap_setup(NameBuffer(ifname), m, PiFlag(pi))}

\* with_options that lets go of the descriptor without closing it when the
\* configuration call fails.
with_options_leak(ifname, m, pi) ==
    {[res |-> Err(o.err), opened |-> 0, closed |-> 0, mode |-> "none",
      name |-> <<>>, kname |-> <<>>, pi |-> FALSE] : o \in {x \in OpenControl : x.tag = "Err"}}
    \cup
    {IF r.result < 0
       THEN [res |-> Err(r.errno), opened |-> 1, closed |-> 0, mode |-> "none",
             name |-> <<>>, kname |-> <<>>, pi |-> FALSE]
       ELSE [res |-> Ok(0), opened |-> 1, closed |-> 0, mode |-> m,
             name |-> CStr(r.buf), kname |-> r.kname, pi |-> r.pi]
        : r \in tuntap_setup(NameBuffer(ifname), m, PiFlag(pi))}

\* Iface::with_options: the result, the fields of the Iface if there is one,
\* and how many descriptors the call opened and closed. A failed open returns
\* through `?`; a failed configuration call returns Error::last_os_error() and
\* drops (closes) fd on the way out.
with_options(ifname, m, pi) ==
    {[res |-> Err(o.err), opened |-> 0, closed |-> 0, mode |-> "none",
      name |-> <<>>, kname |-> <<>>, pi |-> FALSE] : o \in {x \in OpenControl : x.tag = "Err"}}
    \cup
    {IF r.result < 0
       THEN [res |-> Err(r.errno), opened |-> 1, closed |-> 1, mode |-> "none",
             name |-> <<>>, kname |-> <<>>, pi |-> FALSE]
       ELSE [res |-> Ok(0), opened |-> 1, closed |-> 0, mode |-> m,
             name |-> CStr(r.buf), kname |-> r.kname, pi |-> r.pi]
        : r \in tuntap_setup(NameBuffer(ifname), m, PiFlag(pi))}

\* Iface::new
Iface_new(ifname, m) == with_options(ifname, m, TRUE)
\* without_packet_info asking for the header all the same.
without_packet_info_with_header(ifname, m) == with_options(ifname, m, TRUE)
\* Iface::without_packet_info
without_packet_info(ifname, m) == with_options(ifname, m, FALSE)

\* An accessor that answers with the default mode.
Iface_mode_default == "Tun"
\* Iface::mode
Iface_mode == mode
\* Iface::name
Iface_name == name

(* ------------------------------- framing ------------------------------ *)
\* The packet-info header: two bytes of flags, two bytes of protocol (IPv4).
PiHeader == <<0, 0, 8, 0>>
\* The Ethernet header of a Tap frame: destination, source, ethertype (IPv4).
EthHeader == <<2, 0, 0, 0, 0, 1, 2, 0, 0, 0, 0, 2, 8, 0>>
\* What travels over the descriptor for an IP packet: the link-layer header
\* in Tap mode, and in front of it the packet-info header if the device has it.
KernelFrame(pi, m, ip) ==
    (IF pi THEN PiHeader ELSE <<>>) \o (IF m = "Tap" THEN EthHeader ELSE <<>>) \o ip
\* The IP packet the kernel takes out of a frame written to the descriptor.
StripFrame(pi, m, frame) ==
    SubSeq(frame,
           (IF pi THEN Len(PiHeader) ELSE 0) + (IF m = "Tap" THEN Len(EthHeader) ELSE 0) + 1,
           Len(frame))
\* The two ends of the tests' UDP exchange.
Local  == [addr |-> <<10, 10, 10, 1>>, port |-> 2424]
Remote == [addr |-> <<10, 10, 10, 2>>, port |-> 4242]
\* The k-th payload sent: the tests' ten bytes first.
UdpData(k) == IF k = 1 THEN [i \in 1..10 |-> 1] ELSE [i \in 1..k |-> 5]
U16(n) == <<n \div 256, n % 256>>
\* A UDP datagram in an IPv4 packet (PacketBuilder::ipv4(..).udp(..)): a 20-byte
\* IP header, an 8-byte UDP header, the payload; checksums left out.
BuildUdp(from, to, data) ==
    <<69, 0>> \o U16(28 + Len(data)) \o <<0, 0, 0, 0, 20, 17, 0, 0>>
    \o from.addr \o to.addr
    \o U16(from.port) \o U16(to.port) \o U16(8 + Len(data)) \o <<0, 0>>
    \o data
\* PacketHeaders::from_ip_slice: addresses, ports and payload of the datagram.
ParseUdp(ip) ==
    [source |-> SubSeq(ip, 13, 16), destination |-> SubSeq(ip, 17, 20),
     source_port |-> ip[21] * 256 + ip[22],
     destination_port |-> ip[23] * 256 + ip[24],
     payload |-> SubSeq(ip, 29, Len(ip))]

(* -------------------- tokio_core: PollEvented, reactor ---------------- *)
\* impl Read for MioWrapper
MioWrapper_read(buf) == Iface_recv(buf)
\* impl Write for MioWrapper
MioWrapper_write(p) == Iface_send(p)

\* PollEvented::read, as Async::poll calls it: without read-readiness it makes
\* no attempt, registers the current task and reports WouldBlock; with it, it
\* makes one attempt on the descriptor, and when that attempt reports
\* WouldBlock it clears the read-readiness bit and registers the current task
\* (need_read) before handing the result on. The outcome carries the state the
\* call leaves behind: the queue and the readiness source's four fields.
PollEvented_read(buf) ==
    IF ~rdReady
      THEN {[res |-> Err("WouldBlock"), data |-> <<>>, rxq |-> rxq,
             rdReady |-> FALSE, rdTask |-> TRUE,
             wrReady |-> wrReady, wrTask |-> wrTask, attempts |-> 0]}
      ELSE {[res |-> o.res, data |-> o.data, rxq |-> o.rxq,
             rdReady |-> ~IsWouldBlock(o.res),
             rdTask |-> rdTask \/ IsWouldBlock(o.res),
             wrReady |-> wrReady, wrTask |-> wrTask,
             attempts |-> 1] : o \in MioWrapper_read(buf)}

\* PollEvented::write, as Async::start_send calls it (need_write on WouldBlock).
PollEvented_write(p) ==
    IF ~wrReady
      THEN {[res |-> Err("WouldBlock"), nwire |-> nwire, lastTx |-> lastTx,
             writable |-> writable,
             wrReady |-> FALSE, wrTask |-> TRUE,
             rdReady |-> rdReady, rdTask |-> rdTask, attempts |-> 0]}
      ELSE {[res |-> o.res, nwire |-> o.nwire, lastTx |-> o.lastTx,
             writable |-> o.writable,
             wrReady |-> ~IsWouldBlock(o.res),
             wrTask |-> wrTask \/ IsWouldBlock(o.res),
             rdReady |-> rdReady, rdTask |-> rdTask,
             attempts |-> 1] : o \in MioWrapper_write(p)}

(* ------------------------------- Async -------------------------------- *)
\* futures::Async<Option<Vec<u8>>> / AsyncSink<Vec<u8>> / Err, as the callers see it
Ready(item)    == [kind |-> "Ready",    item |-> item, err |-> "none"]
NotReady(item) == [kind |-> "NotReady", item |-> item, err |-> "none"]
Failed(e)      == [kind |-> "Err",      item |-> <<>>, err |-> e]
\* Ready(None) of a Stream: the stream has ended (Ready(item) is Ready(Some(item))).
ReadyNone      == [kind |-> "ReadyNone", item |-> <<>>, err |-> "none"]
\* No call has been made yet.
NoCall         == [api |-> "none",
                   ret |-> [kind |-> "none", item |-> <<>>, err |-> "none"],
                   under |-> Err("none"), attempts |-> 0, bufsize |-> 0,
                   arg |-> <<>>]

\* poll without the WouldBlock arm: every error goes to the caller.
poll_wouldblock_as_error ==
    LET buffer == VecZero(recv_bufsize) IN
    {[ret |-> IF o.res.tag = "Ok" THEN Ready(Resize(Filled(buffer, o.data), o.res.n))
              ELSE Failed(o.res.err),
      io  |-> o] : o \in PollEvented_read(buffer)}

\* poll reading the wrapped Iface directly (self.mio.get_mut()), behind the
\* back of the readiness source: no interest is registered on WouldBlock.
poll_unregistered ==
    LET buffer == VecZero(recv_bufsize) IN
    {[ret |-> IF o.res.tag = "Ok" THEN Ready(Resize(Filled(buffer, o.data), o.res.n))
              ELSE IF o.res.err = "WouldBlock" THEN NotReady(<<>>)
              ELSE Failed(o.res.err),
      io  |-> [res |-> o.res, data |-> o.data, rxq |-> o.rxq,
               rdReady |-> rdReady, rdTask |-> rdTask,
               wrReady |-> wrReady, wrTask |-> wrTask, attempts |-> 1]]
        : o \in MioWrapper_read(buffer)}

\* poll treating every error as "not ready".
poll_swallow_errors ==
    LET buffer == VecZero(recv_bufsize) IN
    {[ret |-> IF o.res.tag = "Ok" THEN Ready(Resize(Filled(buffer, o.data), o.res.n))
              ELSE NotReady(<<>>),
      io  |-> o] : o \in PollEvented_read(buffer)}

\* poll draining the queue and yielding the latest packet only.
poll_latest ==
    LET buffer == VecZero(recv_bufsize) IN
    {[ret |-> IF o.res.tag = "Ok"
                THEN IF o.rxq # <<>>
                       THEN Ready(SubSeq(o.rxq[Len(o.rxq)], 1,
                                         Min(Len(o.rxq[Len(o.rxq)]), recv_bufsize)))
                       ELSE Ready(Resize(Filled(buffer, o.data), o.res.n))
              ELSE IF o.res.err = "WouldBlock" THEN NotReady(<<>>)
              ELSE Failed(o.res.err),
      io  |-> IF o.res.tag = "Ok" THEN [o EXCEPT !.rxq = <<>>] ELSE o]
        : o \in PollEvented_read(buffer)}

\* poll asking for write-readiness when the read would block (need_write).
poll_need_write ==
    LET buffer == VecZero(recv_bufsize) IN
    {[ret |-> IF o.res.tag = "Ok" THEN Ready(Resize(Filled(buffer, o.data), o.res.n))
              ELSE IF o.res.err = "WouldBlock" THEN NotReady(<<>>)
              ELSE Failed(o.res.err),
      io  |-> IF IsWouldBlock(o.res)
                THEN [o EXCEPT !.wrReady = FALSE, !.wrTask = TRUE]
                ELSE o] : o \in PollEvented_read(buffer)}

\* poll without buffer.resize(size, 0): the whole buffer is yielded.
poll_no_resize ==
    LET buffer == VecZero(recv_bufsize) IN
    {[ret |-> IF o.res.tag = "Ok" THEN Ready(Resize(Filled(buffer, o.data), Size(buffer)))
              ELSE IF o.res.err = "WouldBlock" THEN NotReady(<<>>)
              ELSE Failed(o.res.err),
      io  |-> o] : o \in PollEvented_read(buffer)}

\* start_send reporting a packet accepted although the write would block.
start_send_drop(item) ==
    {[ret |-> IF o.res.tag = "Ok" \/ o.res.err = "WouldBlock" THEN Ready(<<>>)
              ELSE Failed(o.res.err),
      io  |-> o] : o \in PollEvented_write(item)}

\* poll trying the descriptor itself once more when the read would block.
poll_retry ==
    LET buffer == VecZero(recv_bufsize) IN
    UNION {IF IsWouldBlock(o.res)
             THEN {[ret |-> IF r.res.tag = "Ok"
                              THEN Ready(Resize(Filled(buffer, r.data), r.res.n))
                            ELSE IF r.res.err = "WouldBlock" THEN NotReady(<<>>)
                            ELSE Failed(r.res.err),
                    io  |-> [o EXCEPT !.res = r.res, !.data = r.data, !.rxq = r.rxq,
                                      !.attempts = o.attempts + 1]]
                      : r \in MioWrapper_read(buffer)}
             ELSE {[ret |-> IF o.res.tag = "Ok"
                              THEN Ready(Resize(Filled(buffer, o.data), o.res.n))
                            ELSE Failed(o.res.err),
                    io  |-> o]}
            : o \in PollEvented_read(buffer)}

\* poll taking a read of zero bytes for the end of the stream, as adapters of
\* byte streams do.
poll_eof_on_empty ==
    LET buffer == VecZero(recv_bufsize) IN
    {[ret |-> IF o.res.tag = "Ok"
                THEN IF o.res.n = 0 THEN ReadyNone
                     ELSE Ready(Resize(Filled(buffer, o.data), o.res.n))
              ELSE IF o.res.err = "WouldBlock" THEN NotReady(<<>>)
              ELSE Failed(o.res.err),
      io  |-> o] : o \in PollEvented_read(buffer)}

\* impl Stream for Async: poll
poll ==
    LET buffer == VecZero(recv_bufsize) IN
    {[ret |-> IF o.res.tag = "Ok" THEN Ready(Resize(Filled(buffer, o.data), o.res.n))
              ELSE IF o.res.err = "WouldBlock" THEN NotReady(<<>>)
              ELSE Failed(o.res.err),
      io  |-> o] : o \in PollEvented_read(buffer)}

\* start_send keeping what a short write left over and handing it back to be
\* submitted by the next call (write_all-like).
start_send_resubmit(item) ==
    {[ret |-> IF o.res.tag = "Ok"
                THEN IF o.res.n < Len(item)
                       THEN NotReady(SubSeq(item, o.res.n + 1, Len(item)))
                       ELSE Ready(<<>>)
              ELSE IF o.res.err = "WouldBlock" THEN NotReady(item)
              ELSE Failed(o.res.err),
      io  |-> o] : o \in PollEvented_write(item)}

\* impl Sink for Async: start_send
start_send(item) ==
    {[ret |-> IF o.res.tag = "Ok" THEN Ready(<<>>)
              ELSE IF o.res.err = "WouldBlock" THEN NotReady(item)
              ELSE Failed(o.res.err),
      io  |-> o] : o \in PollEvented_write(item)}

\* A poll_complete that reports work still pending.
poll_complete_pending == NotReady(<<>>)
\* impl Sink for Async: poll_complete
poll_complete == Ready(<<>>)
\* Sink::close is not overridden: the provided method calls poll_complete.
close == poll_complete
\* impl Write for MioWrapper: flush
MioWrapper_flush == Ok(0)

\* Async::set_recv_bufsize
set_recv_bufsize(bufsize) == bufsize

\* Async::new: the fields of the new adapter
Async_new == [recv_bufsize |-> DefaultRecvBufsize]

(* ------------------------ ownership of the handle --------------------- *)
\* into_raw_fd that hands out the number and still closes the file.
Iface_into_raw_fd_closing == [closes |-> 1]
\* impl IntoRawFd for Iface: self.fd.into_raw_fd() gives the descriptor to the
\* caller; nothing is closed.
Iface_into_raw_fd == [closes |-> 0]
\* Dropping an Iface drops its File, which closes the descriptor.
Iface_drop == [closes |-> 1]

\* Errors of ioctl(FIONBIO) and of the registration with the reactor.
IoctlErrors == {"EBADF", "ENOTTY"}
RegisterErrors == {"ENOMEM"}
\* Async::new making the registration before the non-blocking switch.
Async_new_register_first ==
    {[res |-> Err(e), nonblock |-> nonblock, nreg |-> 1] : e \in IoctlErrors}
    \cup {[res |-> Err(e), nonblock |-> TRUE, nreg |-> 0] : e \in RegisterErrors}
    \cup {[res |-> Ok(0), nonblock |-> TRUE, nreg |-> 1]}
\* Async::new, step by step: ioctl(fd, FIONBIO, 1) first; when it fails the call
\* returns the OS error and PollEvented::new is not reached; otherwise
\* PollEvented::new registers the descriptor once, and its error is returned
\* through `?`.
Async_new_call ==
    {[res |-> Err(e), nonblock |-> nonblock, nreg |-> 0] : e \in IoctlErrors}
    \cup {[res |-> Err(e), nonblock |-> TRUE, nreg |-> 0] : e \in RegisterErrors}
    \cup {[res |-> Ok(0), nonblock |-> TRUE, nreg |-> 1]}

\* Dropping the adapter: PollEvented deregisters the descriptor (impl Evented
\* for MioWrapper: deregister), then the wrapped Iface is dropped and closes it.
Async_drop == <<"deregister", "close">>
\* The registration and the number of closes after the steps of a drop, from a
\* registered open descriptor: a deregistration after the close finds no
\* descriptor and leaves the reactor's entry behind.
AfterDrop(steps) ==
    LET closeAt == {i \in 1..Len(steps) : steps[i] = "close"}
        deregOk == \E i \in 1..Len(steps) :
                      /\ steps[i] = "deregister"
                      /\ \A j \in closeAt : i < j
    IN  [registered |-> ~deregOk, closes |-> Cardinality(closeAt)]

\* A duplicate whose reads look at the queue without taking from it.
Dup_recv_peek(buf) == {[o EXCEPT !.rxq = rxq] : o \in DevRead(buf)}
\* Iface::try_clone: a second descriptor for the same open device (dup).
try_clone == {Err("EMFILE"), Ok(0)}
\* recv and send on the duplicate go to the same device.
Dup_recv(buf) == DevRead(buf)
Dup_send(p) == DevWrite(p)
\* The kernel keeps the device while a descriptor of it is open.
DeviceLive == nopen > nclose

(* ------------------------------ actions ------------------------------- *)
\* The state after Iface::new succeeded: a blocking descriptor, nothing queued.
Init ==
    /\ owner = "iface" /\ nonblock = FALSE
    /\ rxq = <<>> /\ nprod = 0 /\ writable = TRUE /\ nwire = 0 /\ lastTx = <<>>
    /\ evRd = FALSE /\ evWr = FALSE
    /\ recv_bufsize = 0
    /\ rdReady = FALSE /\ wrReady = FALSE /\ rdTask = FALSE /\ wrTask = FALSE
    /\ rdState = "none" /\ wrState = "none"
    /\ last = NoCall /\ ndeliv = 0
    /\ nitem = 0 /\ held = SendItem(1) /\ naccepted = 0
    /\ mode = "Tun" /\ name = KernelName(<<>>, "Tun", 0) /\ packet_info = TRUE
    /\ req = [ifname |-> <<>>, mode |-> "Tun", packet_info |-> TRUE,
              kname |-> KernelName(<<>>, "Tun", 0)]
    /\ nopen = 1 /\ nclose = 0 /\ registered = FALSE /\ nreg = 0 /\ dup = "none"
    /\ shortw = FALSE

\* The state after Iface::new succeeded, on a descriptor whose write(2) may
\* take fewer bytes than it is offered.
InitShort ==
    /\ owner = "iface" /\ nonblock = FALSE
    /\ rxq = <<>> /\ nprod = 0 /\ writable = TRUE /\ nwire = 0 /\ lastTx = <<>>
    /\ evRd = FALSE /\ evWr = FALSE
    /\ recv_bufsize = 0
    /\ rdReady = FALSE /\ wrReady = FALSE /\ rdTask = FALSE /\ wrTask = FALSE
    /\ rdState = "none" /\ wrState = "none"
    /\ last = NoCall /\ ndeliv = 0
    /\ nitem = 0 /\ held = SendItem(1) /\ naccepted = 0
    /\ mode = "Tun" /\ name = KernelName(<<>>, "Tun", 0) /\ packet_info = TRUE
    /\ req = [ifname |-> <<>>, mode |-> "Tun", packet_info |-> TRUE,
              kname |-> KernelName(<<>>, "Tun", 0)]
    /\ nopen = 1 /\ nclose = 0 /\ registered = FALSE /\ nreg = 0 /\ dup = "none"
    /\ shortw = TRUE

\* The kernel routes a packet of one of the lengths in Lens to the interface.
KernelProduceOf(Lens) ==
    /\ nprod < MaxPackets
    /\ \E L \in Lens : rxq' = Append(rxq, KernelPacket(nprod + 1, L))
    /\ nprod' = nprod + 1
    /\ evRd' = (evRd \/ owner = "async")
    /\ UNCHANGED <<owner, nonblock, writable, nwire, lastTx, evWr, recv_bufsize,
                   rdReady, wrReady, rdTask, wrTask>>
    /\ UNCHANGED <<last, rdVars, wrVars>>
    /\ UNCHANGED <<ifaceVars, fdVars>>

\* A short packet arrives.
KernelProduce == KernelProduceOf(PacketLens)
\* A packet as long as the default MTU allows arrives.
KernelProduceFull == KernelProduceOf({FullPacketLen})

\* The kernel's transmit path has room again.
KernelDrain ==
    /\ ~writable
    /\ writable' = TRUE
    /\ evWr' = (evWr \/ owner = "async")
    /\ UNCHANGED <<owner, nonblock, rxq, nprod, nwire, lastTx, evRd, recv_bufsize,
                   rdReady, wrReady, rdTask, wrTask>>
    /\ UNCHANGED <<last, rdVars, wrVars>>
    /\ UNCHANGED <<ifaceVars, fdVars>>

\* A blocking Iface::recv into a fresh buffer of B bytes (dump_iface.rs, pingpong.rs);
\* the caller takes buf[..size] as the packet.
IfaceRecv ==
    /\ owner = "iface"
    /\ \E B \in CallerBufs : \E o \in Iface_recv(VecZero(B)) :
         /\ rxq' = o.rxq
         /\ last' = [api |-> "recv",
                       ret |-> IF o.res.tag = "Ok"
                                 THEN Ready(Slice(Filled(VecZero(B), o.data), o.res.n))
                                 ELSE Failed(o.res.err),
                       under |-> o.res, attempts |-> 1,
                       bufsize |-> IF o.res.tag = "Ok" THEN B ELSE 0,
                       arg |-> IF o.res.tag = "Ok" THEN Head(rxq) ELSE <<>>]
         /\ ndeliv' = IF o.res.tag = "Ok" THEN ndeliv + 1 ELSE ndeliv
    /\ UNCHANGED <<owner, nonblock, nprod, writable, nwire, lastTx, recv_bufsize,
                   rdState>>
    /\ UNCHANGED <<peVars, wrVars>>
    /\ UNCHANGED <<ifaceVars, fdVars>>

\* A blocking Iface::send of the packet the writer holds.
IfaceSend ==
    /\ owner = "iface"
    /\ nitem < MaxSend
    /\ \E o \in Iface_send(held) :
         /\ nwire' = o.nwire
         /\ lastTx' = o.lastTx
         /\ writable' = o.writable
         /\ last' = [api |-> "send",
                       ret |-> IF o.res.tag = "Ok" THEN Ready(<<>>) ELSE Failed(o.res.err),
                       under |-> o.res, attempts |-> 1, bufsize |-> 0,
                       arg |-> held]
         /\ naccepted' = IF o.res.tag = "Ok" THEN naccepted + 1 ELSE naccepted
    /\ nitem' = nitem + 1
    /\ held' = SendItem(nitem + 2)
    /\ UNCHANGED <<owner, nonblock, rxq, nprod, recv_bufsize, wrState>>
    /\ UNCHANGED <<peVars, rdVars>>
    /\ UNCHANGED <<ifaceVars, fdVars>>

\* Async::new(iface, handle), succeeding: the descriptor becomes non-blocking and
\* is registered with the reactor, which reports the readiness it has at that
\* moment as its first events; the futures using the adapter are polled once.
AsyncNew ==
    /\ owner = "iface"
    /\ owner' = "async"
    /\ nonblock' = TRUE
    /\ recv_bufsize' = Async_new.recv_bufsize
    /\ evRd' = (rxq # <<>>)
    /\ evWr' = writable
    /\ rdState' = "runnable"
    /\ wrState' = "runnable"
    /\ UNCHANGED <<rdReady, wrReady, rdTask, wrTask>>
    /\ registered' = TRUE
    /\ nreg' = nreg + 1
    /\ UNCHANGED <<devVars, last, ndeliv, nitem, held, naccepted>>
    /\ UNCHANGED <<ifaceVars, nopen, nclose, dup>>

\* One turn of the reactor: the pending events set the readiness bits and
\* notify the tasks registered for them (notifying a task whose future was
\* dropped runs nothing).
ReactorTurn ==
    /\ owner = "async"
    /\ evRd \/ evWr
    /\ rdReady' = (rdReady \/ evRd)
    /\ wrReady' = (wrReady \/ evWr)
    /\ rdState' = IF evRd /\ rdTask /\ rdState # "dropped" THEN "runnable" ELSE rdState
    /\ wrState' = IF evWr /\ wrTask /\ wrState # "dropped" THEN "runnable" ELSE wrState
    /\ rdTask' = (rdTask /\ ~evRd)
    /\ wrTask' = (wrTask /\ ~evWr)
    /\ evRd' = FALSE
    /\ evWr' = FALSE
    /\ UNCHANGED <<owner, nonblock, recv_bufsize, last, ndeliv,
                   nitem, held, naccepted>>
    /\ UNCHANGED devVars
    /\ UNCHANGED <<ifaceVars, fdVars>>

\* What a task is after a call that returned ret: a loop over the stream
\* (for_each) goes on after an item, is suspended by NotReady, and is over after
\* Ready(None) or an error.
After(ret) == CASE ret.kind = "Ready"     -> "runnable"
                [] ret.kind = "NotReady"  -> "parked"
                [] ret.kind = "ReadyNone" -> "ended"
                [] OTHER                  -> "failed"

\* The reader calls Stream::poll on the adapter.
StreamPoll ==
    /\ owner = "async"
    /\ \E o \in poll :
         /\ rxq' = o.io.rxq
         /\ rdReady' = o.io.rdReady
         /\ rdTask' = o.io.rdTask
         /\ wrReady' = o.io.wrReady
         /\ wrTask' = o.io.wrTask
         /\ last' = [api |-> "poll", ret |-> o.ret, under |-> o.io.res,
                     attempts |-> o.io.attempts,
                     bufsize |-> IF o.io.res.tag = "Ok" THEN recv_bufsize ELSE 0,
                     arg |-> IF o.io.res.tag = "Ok" THEN Head(rxq) ELSE <<>>]
         /\ ndeliv' = IF o.ret.kind = "Ready" THEN ndeliv + 1 ELSE ndeliv
         /\ rdState' = After(o.ret)
    /\ UNCHANGED <<owner, nonblock, nprod, writable, nwire, lastTx, evRd, evWr,
                   recv_bufsize>>
    /\ UNCHANGED wrVars
    /\ UNCHANGED <<ifaceVars, fdVars>>

\* The reader's task runs: it was notified, or it has not finished its loop.
RecvRun == rdState = "runnable" /\ StreamPoll
\* The reader is polled without a notification of its own (a join of the two
\* directions in one task polls both when either is notified; a consumer may
\* poll again after an error).
RecvSpurious == rdState # "runnable" /\ StreamPoll

\* The writer calls Sink::start_send with the packet it holds.
SinkSend ==
    /\ owner = "async"
    /\ nitem < MaxSend
    /\ \E o \in start_send(held) :
         /\ nwire' = o.io.nwire
         /\ lastTx' = o.io.lastTx
         /\ writable' = o.io.writable
         /\ wrReady' = o.io.wrReady
         /\ wrTask' = o.io.wrTask
         /\ rdReady' = o.io.rdReady
         /\ rdTask' = o.io.rdTask
         /\ last' = [api |-> "start_send", ret |-> o.ret, under |-> o.io.res,
                     attempts |-> o.io.attempts, bufsize |-> 0, arg |-> held]
         /\ naccepted' = IF o.ret.kind = "Ready" THEN naccepted + 1 ELSE naccepted
         /\ nitem' = IF o.ret.kind = "NotReady" THEN nitem ELSE nitem + 1
         /\ held' = IF o.ret.kind = "NotReady" THEN o.ret.item ELSE SendItem(nitem + 2)
         /\ wrState' = After(o.ret)
    /\ UNCHANGED <<owner, nonblock, rxq, nprod, evRd, evWr, recv_bufsize>>
    /\ UNCHANGED rdVars
    /\ UNCHANGED <<ifaceVars, fdVars>>

\* The writer's task runs: it was notified, or it has more to send.
SendRun == wrState = "runnable" /\ SinkSend
\* The writer is polled without a notification of its own.
SendSpurious == wrState # "runnable" /\ SinkSend

\* The owner of the adapter reconfigures the receive buffer.
SetRecvBufsize ==
    /\ owner = "async"
    /\ \E n \in BufSizes :
         /\ n # recv_bufsize
         /\ recv_bufsize' = set_recv_bufsize(n)
         /\ last' = [api |-> "set_recv_bufsize", ret |-> NoCall.ret,
                     under |-> NoCall.under, attempts |-> 0, bufsize |-> n,
                     arg |-> <<>>]
    /\ UNCHANGED <<owner, nonblock>>
    /\ UNCHANGED <<devVars, peVars, rdVars, wrVars>>
    /\ UNCHANGED <<ifaceVars, fdVars>>

(* ------------------- creation, ownership and duplicates --------------- *)
\* The record of a call that moved no packet into a buffer.
Called(api, ret, under, attempts, arg) ==
    [api |-> api, ret |-> ret, under |-> under, attempts |-> attempts,
     bufsize |-> 0, arg |-> arg]
NoReq == [ifname |-> <<>>, mode |-> "none", packet_info |-> FALSE, kname |-> <<>>]

\* Before any device is created.
InitNoDevice ==
    /\ owner = "none" /\ nonblock = FALSE
    /\ rxq = <<>> /\ nprod = 0 /\ writable = TRUE /\ nwire = 0 /\ lastTx = <<>>
    /\ evRd = FALSE /\ evWr = FALSE
    /\ recv_bufsize = 0
    /\ rdReady = FALSE /\ wrReady = FALSE /\ rdTask = FALSE /\ wrTask = FALSE
    /\ rdState = "none" /\ wrState = "none"
    /\ last = NoCall /\ ndeliv = 0
    /\ nitem = 0 /\ held = SendItem(1) /\ naccepted = 0
    /\ mode = "none" /\ name = <<>> /\ packet_info = FALSE /\ req = NoReq
    /\ nopen = 0 /\ nclose = 0 /\ registered = FALSE /\ nreg = 0 /\ dup = "none"
    /\ shortw = FALSE

\* Iface::new / Iface::without_packet_info with some name and mode.
IfaceCreate ==
    /\ owner = "none"
    /\ nopen < MaxCreate
    /\ \E ifname \in RequestedNames, m \in Modes, pi \in BOOLEAN :
         \E o \in (IF pi THEN Iface_new(ifname, m)
                         ELSE without_packet_info(ifname, m)) :
           /\ owner' = IF o.res.tag = "Ok" THEN "iface" ELSE "none"
           /\ mode' = o.mode
           /\ name' = o.name
           /\ packet_info' = o.pi
           /\ req' = [ifname |-> ifname, mode |-> m, packet_info |-> pi,
                      kname |-> o.kname]
           /\ nopen' = nopen + o.opened
           /\ nclose' = nclose + o.closed
           /\ last' = Called("create",
                             IF o.res.tag = "Ok" THEN Ready(o.name)
                                                 ELSE Failed(o.res.err),
                             o.res, 1, ifname)
    /\ UNCHANGED <<nonblock, recv_bufsize, registered, nreg, dup, shortw>>
    /\ UNCHANGED <<devVars, peVars, rdVars, wrVars>>

\* iface.mode()
IfaceMode ==
    /\ owner = "iface"
    /\ last' = Called("mode", Ready(<<Iface_mode>>), Ok(0), 0, <<>>)
    /\ UNCHANGED <<owner, nonblock, recv_bufsize>>
    /\ UNCHANGED <<devVars, peVars, rdVars, wrVars, ifaceVars, fdVars>>

\* iface.name()
IfaceName ==
    /\ owner = "iface"
    /\ last' = Called("name", Ready(Iface_name), Ok(0), 0, <<>>)
    /\ UNCHANGED <<owner, nonblock, recv_bufsize>>
    /\ UNCHANGED <<devVars, peVars, rdVars, wrVars, ifaceVars, fdVars>>

\* iface.as_raw_fd(): the number of the descriptor, which stays the Iface's.
AsRawFd ==
    /\ owner = "iface"
    /\ last' = Called("as_raw_fd", Ready(<<>>), Ok(0), 0, <<>>)
    /\ UNCHANGED <<owner, nonblock, recv_bufsize>>
    /\ UNCHANGED <<devVars, peVars, rdVars, wrVars, ifaceVars, fdVars>>

\* iface.into_raw_fd(): the caller takes the descriptor, the Iface is gone.
IntoRawFd ==
    /\ owner = "iface"
    /\ owner' = "raw"
    /\ nclose' = nclose + Iface_into_raw_fd.closes
    /\ last' = Called("into_raw_fd", Ready(<<>>), Ok(0), 0, <<>>)
    /\ UNCHANGED <<nonblock, recv_bufsize, nopen, registered, nreg, dup>>
    /\ UNCHANGED <<devVars, peVars, rdVars, wrVars, ifaceVars>>

\* The Iface goes out of scope.
DropIface ==
    /\ owner = "iface"
    /\ owner' = "closed"
    /\ nclose' = nclose + Iface_drop.closes
    /\ last' = Called("drop", Ready(<<>>), Ok(0), 0, <<>>)
    /\ UNCHANGED <<nonblock, recv_bufsize, nopen, registered, nreg, dup>>
    /\ UNCHANGED <<devVars, peVars, rdVars, wrVars, ifaceVars>>

\* Async::new(iface, handle) failing: the Iface it was given is dropped.
AsyncNewFails ==
    /\ owner = "iface"
    /\ \E o \in {x \in Async_new_call : x.res.tag = "Err"} :
         /\ nonblock' = o.nonblock
         /\ nreg' = nreg + o.nreg
         /\ registered' = (o.nreg > 0)
         /\ last' = Called("Async::new", Failed(o.res.err), o.res, 0, <<>>)
    /\ owner' = "closed"
    /\ nclose' = nclose + Iface_drop.closes
    /\ UNCHANGED <<recv_bufsize, nopen, dup>>
    /\ UNCHANGED <<devVars, peVars, rdVars, wrVars, ifaceVars>>

\* The adapter goes out of scope, and the futures using it with it.
DropAsync ==
    /\ owner = "async"
    /\ owner' = "closed"
    /\ registered' = AfterDrop(Async_drop).registered
    /\ nclose' = nclose + AfterDrop(Async_drop).closes
    /\ rdTask' = FALSE /\ wrTask' = FALSE
    /\ rdReady' = FALSE /\ wrReady' = FALSE
    /\ evRd' = FALSE /\ evWr' = FALSE
    /\ rdState' = "none" /\ wrState' = "none"
    /\ last' = Called("Async::drop", Ready(<<>>), Ok(0), 0, <<>>)
    /\ UNCHANGED <<nonblock, recv_bufsize, nopen, nreg, dup>>
    /\ UNCHANGED <<devVars, ndeliv, nitem, held, naccepted, ifaceVars>>

\* iface.try_clone()
TryClone ==
    /\ owner = "iface"
    /\ dup = "none"
    /\ \E r \in try_clone :
         /\ dup' = IF r.tag = "Ok" THEN "iface" ELSE dup
         /\ nopen' = IF r.tag = "Ok" THEN nopen + 1 ELSE nopen
         /\ last' = Called("try_clone",
                           IF r.tag = "Ok" THEN Ready(<<>>) ELSE Failed(r.err),
                           r, 0, <<>>)
    /\ UNCHANGED <<owner, nonblock, recv_bufsize, nclose, registered, nreg>>
    /\ UNCHANGED <<devVars, peVars, rdVars, wrVars, ifaceVars>>

\* A blocking recv on the duplicate.
DupRecv ==
    /\ dup = "iface"
    /\ \E B \in CallerBufs : \E o \in Dup_recv(VecZero(B)) :
         /\ rxq' = o.rxq
         /\ last' = [api |-> "dup.recv",
                     ret |-> IF o.res.tag = "Ok"
                               THEN Ready(Slice(Filled(VecZero(B), o.data), o.res.n))
                               ELSE Failed(o.res.err),
                     under |-> o.res, attempts |-> 1,
                     bufsize |-> IF o.res.tag = "Ok" THEN B ELSE 0,
                     arg |-> IF o.res.tag = "Ok" THEN Head(rxq) ELSE <<>>]
         /\ ndeliv' = IF o.res.tag = "Ok" THEN ndeliv + 1 ELSE ndeliv
    /\ UNCHANGED <<owner, nonblock, nprod, writable, nwire, lastTx, recv_bufsize,
                   rdState>>
    /\ UNCHANGED <<peVars, wrVars, ifaceVars, fdVars>>

\* A blocking send on the duplicate.
DupSend ==
    /\ dup = "iface"
    /\ nitem < MaxSend
    /\ \E o \in Dup_send(held) :
         /\ nwire' = o.nwire
         /\ lastTx' = o.lastTx
         /\ writable' = o.writable
         /\ last' = Called("dup.send",
                           IF o.res.tag = "Ok" THEN Ready(<<>>) ELSE Failed(o.res.err),
                           o.res, 1, held)
         /\ naccepted' = IF o.res.tag = "Ok" THEN naccepted + 1 ELSE naccepted
    /\ nitem' = nitem + 1
    /\ held' = SendItem(nitem + 2)
    /\ UNCHANGED <<owner, nonblock, rxq, nprod, recv_bufsize, wrState>>
    /\ UNCHANGED <<peVars, rdVars, ifaceVars, fdVars>>

\* The duplicate goes out of scope.
DropDup ==
    /\ dup = "iface"
    /\ dup' = "closed"
    /\ nclose' = nclose + Iface_drop.closes
    /\ last' = Called("dup.drop", Ready(<<>>), Ok(0), 0, <<>>)
    /\ UNCHANGED <<owner, nonblock, recv_bufsize, nopen, registered, nreg>>
    /\ UNCHANGED <<devVars, peVars, rdVars, wrVars, ifaceVars>>

(* ----------------------------- cancellation --------------------------- *)
\* Dropping the reader's future with everything the adapter keeps for it.
CancelRecv_clears_all ==
    /\ owner = "async"
    /\ rdState = "parked"
    /\ rdState' = "dropped"
    /\ rdTask' = FALSE /\ wrTask' = FALSE
    /\ UNCHANGED <<owner, nonblock, recv_bufsize, last, ndeliv, rdReady, wrReady,
                   evRd, evWr>>
    /\ UNCHANGED <<devVars, wrVars, ifaceVars, fdVars>>

\* The owner of a suspended read (the future that called Stream::poll and got
\* NotReady) drops it. No code of the adapter runs: Async has no Drop and no
\* call that withdraws a requested notification.
CancelRecv ==
    /\ owner = "async"
    /\ rdState = "parked"
    /\ rdState' = "dropped"
    /\ UNCHANGED <<owner, nonblock, recv_bufsize, last, ndeliv>>
    /\ UNCHANGED <<devVars, peVars, wrVars, ifaceVars, fdVars>>

\* The owner of a suspended write drops it; the packet it held stays with the
\* caller's side.
CancelSend ==
    /\ owner = "async"
    /\ wrState = "parked"
    /\ wrState' = "dropped"
    /\ UNCHANGED <<owner, nonblock, recv_bufsize, last, nitem, held, naccepted>>
    /\ UNCHANGED <<devVars, peVars, rdVars, ifaceVars, fdVars>>

(* -------------------------- flush and shutdown ------------------------ *)
\* The writer calls Sink::poll_complete.
PollComplete ==
    /\ owner = "async"
    /\ last' = Called("poll_complete", poll_complete, Ok(0), 0, <<>>)
    /\ wrState' = IF poll_complete.kind = "Ready" THEN wrState
                                                  ELSE After(poll_complete)
    /\ UNCHANGED <<owner, nonblock, recv_bufsize, nitem, held, naccepted>>
    /\ UNCHANGED <<devVars, peVars, rdVars, ifaceVars, fdVars>>

\* The writer calls Sink::close to shut the sink down.
SinkClose ==
    /\ owner = "async"
    /\ last' = Called("close", close, Ok(0), 0, <<>>)
    /\ wrState' = IF close.kind = "Ready" THEN wrState ELSE After(close)
    /\ UNCHANGED <<owner, nonblock, recv_bufsize, nitem, held, naccepted>>
    /\ UNCHANGED <<devVars, peVars, rdVars, ifaceVars, fdVars>>

\* Write::flush on the wrapped device.
MioFlush ==
    /\ owner = "async"
    /\ last' = Called("flush",
                      IF MioWrapper_flush.tag = "Ok" THEN Ready(<<>>)
                                                     ELSE Failed(MioWrapper_flush.err),
                      MioWrapper_flush, 0, <<>>)
    /\ UNCHANGED <<owner, nonblock, recv_bufsize>>
    /\ UNCHANGED <<devVars, peVars, rdVars, wrVars, ifaceVars, fdVars>>

(* ----------------------- packets of the UDP tests --------------------- *)
\* The socket on the kernel's side sends a datagram that is routed to the
\* interface (it_sents_packets).
EndpointSend ==
    /\ owner = "iface"
    /\ nprod < MaxPackets
    /\ rxq' = Append(rxq, KernelFrame(packet_info, mode,
                                      BuildUdp(Local, Remote, UdpData(nprod + 1))))
    /\ nprod' = nprod + 1
    /\ UNCHANGED <<owner, nonblock, writable, nwire, lastTx, recv_bufsize, last>>
    /\ UNCHANGED <<peVars, rdVars, wrVars, ifaceVars, fdVars>>

\* The program builds a datagram for the socket, framed the way it created
\* the device, and sends it into the interface (it_receives_packets).
IfaceSendUdp ==
    /\ owner = "iface"
    /\ nitem < MaxSend
    /\ LET frame == KernelFrame(req.packet_info, req.mode,
                                BuildUdp(Remote, Local, UdpData(nitem + 1)))
       IN \E o \in Iface_send(frame) :
            /\ nwire' = o.nwire
            /\ lastTx' = o.lastTx
            /\ writable' = o.writable
            /\ last' = Called("send",
                              IF o.res.tag = "Ok" THEN Ready(<<>>)
                                                  ELSE Failed(o.res.err),
                              o.res, 1, frame)
            /\ naccepted' = IF o.res.tag = "Ok" THEN naccepted + 1 ELSE naccepted
    /\ nitem' = nitem + 1
    /\ UNCHANGED <<owner, nonblock, rxq, nprod, recv_bufsize, held, wrState>>
    /\ UNCHANGED <<peVars, rdVars, ifaceVars, fdVars>>

Next ==
    \/ KernelProduce
    \/ KernelDrain
    \/ IfaceRecv
    \/ IfaceSend
    \/ AsyncNew
    \/ ReactorTurn
    \/ RecvRun
    \/ RecvSpurious
    \/ SendRun
    \/ SendSpurious
    \/ SetRecvBufsize

Spec == Init /\ [][Next]_vars

\* A program that wraps the interface right away and drives both directions on
\* the event loop (examples/tokio.rs, examples/vpn.rs).
NextLoop ==
    \/ KernelProduce
    \/ KernelDrain
    \/ AsyncNew
    \/ ReactorTurn
    \/ RecvRun
    \/ RecvSpurious
    \/ SendRun
    \/ SendSpurious

\* The scheduling of tokio_core's Core::run: the reactor is turned again and
\* again, and a notified task is polled.
FairSpec ==
    /\ Init /\ [][NextLoop]_vars
    /\ WF_vars(ReactorTurn)
    /\ WF_vars(RecvRun)
    /\ WF_vars(SendRun)

\* The receive side alone, on a link that also carries full-length packets.
NextMTU ==
    \/ KernelProduce
    \/ KernelProduceFull
    \/ AsyncNew
    \/ ReactorTurn
    \/ RecvRun
    \/ RecvSpurious
    \/ SetRecvBufsize

SpecMTU == Init /\ [][NextMTU]_vars


\* Programs that create a device and use it through the blocking calls.
NextCreate ==
    \/ IfaceCreate
    \/ (DeviceLive /\ KernelProduce)
    \/ IfaceRecv
    \/ IfaceSend
    \/ IfaceMode
    \/ IfaceName
    \/ AsRawFd
    \/ DropIface

SpecCreate == InitNoDevice /\ [][NextCreate]_vars

\* Programs that pass the handle on: duplicate it, wrap it, take the raw
\* descriptor, drop any of the owners.
NextOwn ==
    \/ (DeviceLive /\ KernelProduce)
    \/ IfaceRecv
    \/ IfaceSend
    \/ TryClone
    \/ DupRecv
    \/ DupSend
    \/ DropDup
    \/ DropIface
    \/ IntoRawFd
    \/ AsyncNew
    \/ AsyncNewFails
    \/ ReactorTurn
    \/ RecvRun
    \/ SendRun
    \/ DropAsync

SpecOwn == Init /\ [][NextOwn]_vars


\* The event loop of FairSpec with futures that may be dropped while suspended.
NextCancel ==
    \/ KernelProduce
    \/ KernelDrain
    \/ AsyncNew
    \/ ReactorTurn
    \/ RecvRun
    \/ RecvSpurious
    \/ SendRun
    \/ SendSpurious
    \/ CancelRecv
    \/ CancelSend

FairCancel ==
    /\ Init /\ [][NextCancel]_vars
    /\ WF_vars(ReactorTurn)
    /\ WF_vars(RecvRun)
    /\ WF_vars(SendRun)

\* The event loop with a writer that also flushes and closes its sink.
NextFlush ==
    \/ KernelProduce
    \/ KernelDrain
    \/ AsyncNew
    \/ ReactorTurn
    \/ RecvRun
    \/ SendRun
    \/ SendSpurious
    \/ PollComplete
    \/ SinkClose
    \/ MioFlush

SpecFlush == Init /\ [][NextFlush]_vars

\* The UDP exchanges of the integration tests, on any kind of device.
NextFrame ==
    \/ IfaceCreate
    \/ EndpointSend
    \/ IfaceRecv
    \/ IfaceSendUdp
    \/ KernelDrain

SpecFrame == InitNoDevice /\ [][NextFrame]_vars

\* The event loop on a descriptor that may write short.
NextShort ==
    \/ KernelProduce
    \/ KernelDrain
    \/ AsyncNew
    \/ ReactorTurn
    \/ RecvRun
    \/ SendRun
    \/ SendSpurious

SpecShort == InitShort /\ [][NextShort]_vars

(* ------------------------------ properties ---------------------------- *)
Prefix(p, n) == SubSeq(p, 1, n)
RecvCall == last.api \in {"recv", "poll"}
AsyncCall == last.api \in {"poll", "start_send"}

\* C1: a would-block outcome of the descriptor (or of the readiness source)
\* never reaches the caller of the adapter: the call returns NotReady, with no
\* packet and no error, and the task is suspended, not failed.
C1_WouldBlockNeverSurfaced ==
    /\ last.ret.err # "WouldBlock"
    /\ (AsyncCall /\ IsWouldBlock(last.under)) => last.ret.kind = "NotReady"
    /\ (last.api = "poll" /\ IsWouldBlock(last.under)) =>
          /\ last.ret = NotReady(<<>>)
          /\ rdState # "failed"

\* A read attempt on the descriptor itself reported would-block (stale
\* readiness) and the reader is suspended.
C1_Witness ==
    /\ last.api = "poll" /\ last.attempts = 1 /\ IsWouldBlock(last.under)
    /\ rdState = "parked"

\* C3: an outcome other than would-block goes to the caller as it is, after
\* exactly one transfer attempt: an error as that same error, a success as a
\* packet of the size read (poll) or as "accepted" (start_send).
C3_OutcomePassedThrough ==
    (AsyncCall /\ ~IsWouldBlock(last.under)) =>
        /\ last.attempts = 1
        /\ last.under.tag = "Err" => last.ret = Failed(last.under.err)
        /\ last.under.tag = "Ok" =>
              /\ last.ret.kind = "Ready"
              /\ last.api = "poll" => Len(last.ret.item) = last.under.n

\* A genuine read error reached the reader after one attempt.
C3_Witness ==
    /\ last.api = "poll" /\ last.attempts = 1
    /\ last.ret = Failed("EBADFD") /\ rdState = "failed"

\* C4: no packet is lost or duplicated by the send path: the device has taken
\* exactly the packets reported accepted; a packet reported not ready is handed
\* back unmodified, stays the packet the writer submits next, and is not on
\* the device; a packet reported accepted is the one the device took last.
C4_SendExactlyOnce ==
    /\ nwire = naccepted
    /\ held = SendItem(nitem + 1)
    /\ nwire > 0 => \E k \in 1..nitem : lastTx = SendItem(k)
    /\ (last.api = "start_send" /\ last.ret.kind = "NotReady") =>
          /\ IsWouldBlock(last.under)
          /\ last.ret.item = last.arg
    /\ (last.api = "start_send" /\ last.ret.kind = "Ready") => lastTx = last.arg

\* The second packet was refused by a full device and handed back.
C4_Witness ==
    /\ last.api = "start_send" /\ last.attempts = 1
    /\ last.ret = NotReady(SendItem(2)) /\ naccepted = 1

\* C5: one successful read is one kernel packet: it takes exactly one packet
\* off the queue and yields a prefix of that packet and nothing else; one
\* successful write puts exactly the submitted packet on the device.
C5_PacketBoundaries ==
    /\ nprod = ndeliv + Len(rxq)
    /\ (RecvCall /\ last.under.tag = "Ok") =>
          /\ last.under.n <= Len(last.arg)
          /\ last.ret.item = Prefix(last.arg, last.under.n)
    /\ (last.api \in {"send", "start_send"} /\ last.under.tag = "Ok") =>
          /\ last.under.n = Len(last.arg)
          /\ lastTx = last.arg

\* A read into a buffer with room to spare, with another packet queued behind
\* the one that was read.
C5_Witness ==
    /\ RecvCall /\ last.under.tag = "Ok"
    /\ last.under.n >= 1 /\ last.bufsize > last.under.n
    /\ rxq # <<>> /\ Len(Head(rxq)) >= 1

\* C6: the reader gets the packets in the order the kernel produced them: the
\* n-th packet handed over is (a prefix of) the n-th packet produced, and the
\* queue holds the following ones, in order.
C6_NoReordering ==
    /\ \A i \in 1..Len(rxq) : rxq[i] = KernelPacket(ndeliv + i, Len(rxq[i]))
    /\ (RecvCall /\ last.under.tag = "Ok") =>
          last.ret.item = Prefix(KernelPacket(ndeliv, Len(last.arg)), last.under.n)

\* The adapter's reader got its second packet, a non-empty one.
C6_Witness ==
    /\ last.api = "poll" /\ last.ret.kind = "Ready"
    /\ ndeliv = 2 /\ Len(last.ret.item) >= 1

\* C2: no missed wakeup. A task that got NotReady is registered with the
\* readiness source for its direction; and under the scheduling of FairSpec a
\* reader suspended while a packet is queued gets a packet or an error, and a
\* writer suspended while the device has room gets its packet accepted or an
\* error.
C2_NoMissedWakeup ==
    /\ [](rdState = "parked" => rdTask)
    /\ [](wrState = "parked" => wrTask)
    /\ (rdState = "parked" /\ rxq # <<>>)
          ~> (last.api = "poll" /\ last.attempts = 1 /\ last.ret.kind # "NotReady")
    /\ (wrState = "parked" /\ writable)
          ~> (last.api = "start_send" /\ last.attempts = 1
                /\ last.ret.kind # "NotReady")

\* A packet arrived while the reader was suspended after a would-block attempt
\* on the descriptor; the notification is on its way.
C2_Witness ==
    /\ rdState = "parked" /\ rdTask /\ evRd /\ rxq # <<>>
    /\ last.api = "poll" /\ last.attempts = 1 /\ IsWouldBlock(last.under)

\* C7: the two directions do not interfere. A receive call leaves the write
\* side of the readiness source, the writer and the transmit path as they are,
\* and a send call the read side; a notification for one direction alone does
\* not touch the other; and whatever state the other direction is in, a send
\* can complete when the device is write-ready and a receive when a packet is
\* queued and read-ready.
C7_DirectionsIndependent ==
    /\ [][StreamPoll => UNCHANGED <<wrReady, wrTask, wrState, writable, nwire,
                                    lastTx, nitem, held, naccepted>>]_vars
    /\ [][SinkSend => UNCHANGED <<rdReady, rdTask, rdState, rxq, ndeliv>>]_vars
    /\ [][(ReactorTurn /\ ~evWr) => UNCHANGED <<wrReady, wrTask, wrState>>]_vars
    /\ [][(ReactorTurn /\ ~evRd) => UNCHANGED <<rdReady, rdTask, rdState>>]_vars
    /\ []((owner = "async" /\ nitem < MaxSend /\ wrReady /\ writable)
            => ENABLED (SinkSend /\ naccepted' = naccepted + 1))
    /\ []((owner = "async" /\ rdReady /\ rxq # <<>>)
            => ENABLED (StreamPoll /\ ndeliv' = ndeliv + 1))

\* A send was accepted by the device while the reader was suspended.
C7_Witness ==
    /\ rdState = "parked" /\ rdTask
    /\ last.api = "start_send" /\ last.attempts = 1 /\ last.ret.kind = "Ready"

\* C8: a blocking recv of a packet of L bytes into a buffer of B bytes returns
\* min(L, B) and the first min(L, B) bytes; what did not fit is gone: the queue
\* holds only whole packets, the next one first.
C8_TruncationNotAnError ==
    /\ (last.api = "recv" /\ last.under.tag = "Ok") =>
          /\ last.under.n = Min(Len(last.arg), last.bufsize)
          /\ last.ret = Ready(Prefix(last.arg, Min(Len(last.arg), last.bufsize)))
    /\ owner = "iface" =>
          /\ nprod = ndeliv + Len(rxq)
          /\ \A i \in 1..Len(rxq) : rxq[i] = KernelPacket(ndeliv + i, Len(rxq[i]))

\* A blocking recv truncated a packet while the next packet was queued.
C8_Witness ==
    /\ last.api = "recv" /\ last.under.tag = "Ok"
    /\ last.bufsize < Len(last.arg)
    /\ rxq # <<>> /\ owner = "iface"

\* C9: set_recv_bufsize(n) sets the size that later receive attempts use: an
\* item yielded by the stream is the first min(L, size) bytes of the packet,
\* with no padding, where size is the configured size at the time of the poll.
C9_RecvBufsizeGoverns ==
    /\ last.api = "set_recv_bufsize" => recv_bufsize = last.bufsize
    /\ owner = "async" => recv_bufsize \in BufSizes \cup {Async_new.recv_bufsize}
    /\ (last.api = "poll" /\ last.ret.kind = "Ready") =>
          last.ret.item = Prefix(last.arg, Min(Len(last.arg), last.bufsize))

\* A poll after set_recv_bufsize truncated a packet to the configured size.
C9_Witness ==
    /\ last.api = "poll" /\ last.ret.kind = "Ready"
    /\ last.bufsize \in BufSizes /\ recv_bufsize = last.bufsize
    /\ Len(last.arg) > last.bufsize /\ Len(last.ret.item) = last.bufsize

\* C10: the size a new adapter starts with is at least the default MTU plus the
\* 4-byte header, and a poll made with that size yields the packet in full.
C10_DefaultBufsizeHoldsFullPacket ==
    /\ Async_new.recv_bufsize >= DefaultMTU + HeaderLen
    /\ (last.api = "poll" /\ last.ret.kind = "Ready"
          /\ last.bufsize = Async_new.recv_bufsize) => last.ret.item = last.arg

\* A full-length packet was yielded by an adapter that was never reconfigured.
C10_Witness ==
    /\ last.api = "poll" /\ last.ret.kind = "Ready"
    /\ last.bufsize = Async_new.recv_bufsize
    /\ Len(last.ret.item) = DefaultMTU + HeaderLen

\* Handles of the device that some owner holds open.
OpenHandles ==
    (IF owner \in {"iface", "async", "raw"} THEN 1 ELSE 0)
    + (IF dup = "iface" THEN 1 ELSE 0)
Chars(seq) == {seq[i] : i \in 1..Len(seq)}

\* C11: Async::new switches the descriptor to non-blocking mode first and then
\* registers it, once: a registration exists only on a non-blocking
\* descriptor, so none is made when the switch fails; a failure is returned as
\* the error of the failing step; the adapter's descriptor is non-blocking and
\* registered exactly once, and every transfer the adapter attempts is made on
\* a non-blocking descriptor.
C11_WrapSwitchesThenRegisters ==
    /\ nreg <= 1
    /\ nreg > 0 => nonblock
    /\ registered => nonblock
    /\ owner = "async" => (nonblock /\ registered /\ nreg = 1)
    /\ last.api = "Async::new" =>
          /\ last.ret = Failed(last.under.err)
          /\ last.under.err \in IoctlErrors => (nreg = 0 /\ ~nonblock)
          /\ ~registered
    /\ (AsyncCall /\ last.attempts = 1) => (nonblock /\ nreg = 1)

\* The non-blocking switch failed: the error is returned, nothing is registered.
C11_Witness ==
    /\ last.api = "Async::new" /\ last.ret = Failed("ENOTTY")
    /\ nreg = 0 /\ ~registered /\ owner = "closed"

\* C12: the handle has one owner at a time and is closed exactly once: the
\* descriptors still open are exactly those of the live owners (an Iface, an
\* adapter, the caller of into_raw_fd, a duplicate), so a drop closes its
\* descriptor once, into_raw_fd closes nothing and nothing is closed twice; a
\* registration exists only while the adapter owns the descriptor; and packets
\* are transferred only through an owner that is alive.
C12_HandleOwnedAndClosedOnce ==
    /\ [](nopen - nclose = OpenHandles)
    /\ [](registered => owner = "async")
    /\ [](owner = "raw" => nclose = IF dup = "closed" THEN 1 ELSE 0)
    /\ [][(ndeliv' # ndeliv \/ nwire' # nwire)
            => (owner \in {"iface", "async"} \/ dup = "iface")]_vars
    /\ [][owner = "closed" => owner' = "closed"]_vars
    /\ [][owner = "raw" => owner' = "raw"]_vars

\* The adapter was dropped after use: deregistered, its descriptor closed once.
C12_Witness ==
    /\ last.api = "Async::drop" /\ owner = "closed" /\ dup = "none"
    /\ nopen = 1 /\ nclose = 1 /\ nreg = 1 /\ ~registered /\ ndeliv >= 1

\* C14: a duplicate is a second owner of the same device: a packet sent through
\* it is on the device as one sent through the original; with readers on both
\* handles every packet produced is either still queued or was delivered to
\* exactly one reader, in order; and the device lives as long as one of the
\* owners does.
C14_DuplicateSharesDevice ==
    /\ nprod = ndeliv + Len(rxq)
    /\ \A i \in 1..Len(rxq) : rxq[i] = KernelPacket(ndeliv + i, Len(rxq[i]))
    /\ (last.api = "dup.recv" /\ last.under.tag = "Ok") =>
          last.ret.item = Prefix(KernelPacket(ndeliv, Len(last.arg)), last.under.n)
    /\ (last.api = "dup.send" /\ last.under.tag = "Ok") =>
          /\ lastTx = last.arg
          /\ last.under.n = Len(last.arg)
          /\ nwire = naccepted
    /\ (owner \in {"iface", "async", "raw"} \/ dup = "iface") <=> DeviceLive

\* With the original still open, the duplicate received the second packet
\* after a first one had been delivered.
C14_Witness ==
    /\ last.api = "dup.recv" /\ last.under.tag = "Ok" /\ last.under.n >= 1
    /\ ndeliv = 2 /\ owner = "iface" /\ dup = "iface"

\* C15: the mode, the packet-info setting and the name of a device never
\* change: while the Iface exists they are what creation set, no call changes
\* them, mode() returns the mode passed to creation and name() the same
\* non-empty name.
C15_ModeAndNameImmutable ==
    /\ [](owner = "iface" =>
            /\ mode = req.mode
            /\ packet_info = req.packet_info
            /\ name # <<>>)
    /\ [][(owner = "iface" /\ owner' = "iface")
            => UNCHANGED <<mode, name, packet_info, req>>]_vars
    /\ [](last.api = "mode" => last.ret = Ready(<<req.mode>>))
    /\ [](last.api = "name" => (last.ret = Ready(name) /\ last.ret.item # <<>>))

\* mode() on a Tap device after packets went both ways.
C15_Witness ==
    /\ last.api = "mode" /\ req.mode = "Tap" /\ owner = "iface"
    /\ ndeliv >= 1 /\ nitem >= 1

\* C16: the name of a created device is the name the kernel confirmed: for an
\* empty request the kernel's own name for the mode, for a request with a
\* placeholder the name with a number in its place, for a request longer than
\* the kernel stores the shortened name; name() returns that name.
C16_NameIsKernelConfirmed ==
    /\ owner = "iface" =>
          /\ name = req.kname
          /\ \E n \in KernelUnits : name = KernelName(req.ifname, req.mode, n)
          /\ "%d" \notin Chars(name)
          /\ Len(name) <= IfNameMax
          /\ req.ifname = <<>> => Len(name) = 4
    /\ last.api = "name" => last.ret.item = req.kname

\* name() on a device whose requested name was too long.
C16_Witness ==
    /\ last.api = "name" /\ Len(req.ifname) > IfNameMax
    /\ Len(last.ret.item) = IfNameMax /\ last.ret.item # req.ifname

\* C17: creation is all-or-nothing: a failed creation returns the error of the
\* step that failed, leaves no Iface behind, and every descriptor it opened is
\* closed again.
C17_CreationAllOrNothing ==
    /\ (last.api = "create" /\ last.under.tag = "Err") =>
          /\ last.ret = Failed(last.under.err)
          /\ last.under.err \in OpenErrors \cup SetupErrors
          /\ owner = "none" /\ mode = "none" /\ name = <<>>
    /\ owner = "none" => nopen = nclose
    /\ (last.api = "create" /\ last.under.tag = "Ok") =>
          (owner # "none" /\ nopen = nclose + OpenHandles)

\* The configuration call was refused: the control descriptor is closed again.
C17_Witness ==
    /\ last.api = "create" /\ last.ret = Failed("EBUSY")
    /\ owner = "none" /\ nopen = 1 /\ nclose = 1

\* The send attempt / receive attempt of the last call came to an end.
SendCompleted ==
    last.api = "start_send" /\ last.attempts = 1 /\ last.ret.kind # "NotReady"
RecvCompleted ==
    last.api = "poll" /\ last.attempts = 1 /\ last.ret.kind # "NotReady"

\* C13, as stated: dropping a suspended recv or send removes its interest in
\* readiness, does not touch the opposite direction and leaves the queued
\* packets whole.
C13_CancelRemovesInterest ==
    /\ [][CancelRecv => (~rdTask' /\ UNCHANGED <<wrReady, wrTask, wrState, rxq>>)]_vars
    /\ [][CancelSend => (~wrTask' /\ UNCHANGED <<rdReady, rdTask, rdState, rxq>>)]_vars

\* C13, amended: dropping a suspended recv or send changes no state of the
\* adapter, of the readiness source or of the device: the requested
\* notification stays registered, the opposite direction keeps its readiness
\* and registration, and the queue is as it was; a suspended operation of the
\* opposite direction is still woken and reaches an attempt that completes
\* when its readiness arrives; and the next successful read yields the packet
\* at the head of the queue from its first byte.
C13_CancellationIsLocal ==
    /\ [][CancelRecv => UNCHANGED <<devVars, peVars, wrVars, last, ndeliv>>]_vars
    /\ [][CancelSend => UNCHANGED <<devVars, peVars, rdVars, last, nitem, held>>]_vars
    /\ [](wrState = "parked" => wrTask)
    /\ [](rdState = "parked" => rdTask)
    /\ [](nprod = ndeliv + Len(rxq))
    /\ []((last.api = "poll" /\ last.ret.kind = "Ready") =>
            last.ret.item = Prefix(KernelPacket(ndeliv, Len(last.arg)), last.under.n))
    /\ (rdState = "dropped" /\ wrState = "parked" /\ writable)
          ~> (SendCompleted \/ wrState = "dropped")
    /\ (wrState = "dropped" /\ rdState = "parked" /\ rxq # <<>>)
          ~> (RecvCompleted \/ rdState = "dropped")

\* After the reader was dropped with its notification still registered, a send
\* completed while a packet is waiting, whole, for the next reader.
C13_Witness ==
    /\ rdState = "dropped" /\ rdTask
    /\ SendCompleted /\ last.ret.kind = "Ready"
    /\ rxq # <<>> /\ Len(Head(rxq)) >= 1

FlushCall == last.api \in {"poll_complete", "close", "flush"}

\* C19: flushing and closing the adapter are no-ops: they can be called in
\* every state of the adapter, return success at once, make no attempt on the
\* device, suspend nobody and change nothing but the record of the call; and
\* whenever they are called the device already holds every packet that was
\* reported accepted.
C19_FlushAndShutdownAreNoOps ==
    /\ [][(PollComplete \/ SinkClose \/ MioFlush)
            => UNCHANGED <<owner, nonblock, recv_bufsize, devVars, peVars, rdVars,
                           wrVars, ifaceVars, fdVars>>]_vars
    /\ [](FlushCall => (last.ret = Ready(<<>>) /\ last.attempts = 0))
    /\ [](owner = "async" => (ENABLED PollComplete /\ ENABLED SinkClose
                                /\ ENABLED MioFlush))
    /\ [](FlushCall => nwire = naccepted)
    /\ []((FlushCall /\ naccepted > 0) => \E k \in 1..nitem : lastTx = SendItem(k))

\* poll_complete returned at once after a send was accepted, with the device
\* full and the writer's next packet refused.
C19_Witness ==
    /\ last.api = "poll_complete" /\ last.ret = Ready(<<>>)
    /\ naccepted >= 1 /\ ~writable /\ wrState = "parked"

\* C20: an operation never spins. A call makes at most one attempt on the
\* descriptor; a task woken by a readiness notification makes exactly one;
\* without readiness a call makes none and moves nothing; an attempt that
\* would block clears the direction's readiness and requests a notification; and
\* readiness comes back only through an event the reactor delivers.
C20_NeverSpins ==
    /\ [](AsyncCall => last.attempts \in {0, 1})
    /\ [][(RecvRun /\ rdReady) => last'.attempts = 1]_vars
    /\ [][(SendRun /\ wrReady) => last'.attempts = 1]_vars
    /\ [][(StreamPoll /\ ~rdReady) => (last'.attempts = 0 /\ rxq' = rxq)]_vars
    /\ [][(SinkSend /\ ~wrReady) => (last'.attempts = 0 /\ nwire' = nwire)]_vars
    /\ [][(StreamPoll /\ IsWouldBlock(last'.under))
            => (~rdReady' /\ rdTask' /\ rdState' = "parked")]_vars
    /\ [][(SinkSend /\ IsWouldBlock(last'.under))
            => (~wrReady' /\ wrTask' /\ wrState' = "parked")]_vars
    /\ [][(~rdReady /\ rdReady') => (evRd /\ ~evRd')]_vars
    /\ [][(~wrReady /\ wrReady') => (evWr /\ ~evWr')]_vars

\* After an attempt that would block the reader was polled again before the
\* notification for a newly queued packet was delivered: no attempt was made.
C20_Witness ==
    /\ last.api = "poll" /\ last.attempts = 0 /\ IsWouldBlock(last.under)
    /\ rdState = "parked" /\ rdTask /\ ~rdReady
    /\ rxq # <<>> /\ evRd

\* The bytes in front of the IP packet in a frame of the created device.
FrameHeaderLen ==
    (IF req.packet_info THEN 4 ELSE 0) + (IF req.mode = "Tap" THEN Len(EthHeader) ELSE 0)

\* C18: framing round trip. A datagram the kernel's endpoint sends is returned
\* by recv (into a buffer that holds it) byte for byte, preceded by the 4-byte
\* packet-info header (two zero flag bytes, two protocol bytes) exactly when
\* the device was created with packet info, with the addresses, ports and
\* payload that were sent; ten bytes of UDP payload on a Tun device without
\* packet info are 38 bytes; and a datagram passed to send arrives at the
\* endpoint with the payload, addresses and ports it was built with.
C18_FramingRoundTrip ==
    /\ owner = "iface" => packet_info = req.packet_info
    /\ (last.api = "recv" /\ last.under.tag = "Ok" /\ last.bufsize >= Len(last.arg)) =>
          LET item == last.ret.item
              ip   == SubSeq(item, FrameHeaderLen + 1, Len(item))
          IN  /\ last.under.n = Len(item)
              /\ ip = BuildUdp(Local, Remote, UdpData(ndeliv))
              /\ req.packet_info <=> SubSeq(item, 1, 4) = PiHeader
              /\ ParseUdp(ip) = [source |-> Local.addr, destination |-> Remote.addr,
                                 source_port |-> Local.port,
                                 destination_port |-> Remote.port,
                                 payload |-> UdpData(ndeliv)]
              /\ (~req.packet_info /\ req.mode = "Tun" /\ ndeliv = 1) => Len(item) = 38
    /\ (last.api = "send" /\ last.under.tag = "Ok") =>
          /\ last.under.n = Len(last.arg)
          /\ ParseUdp(StripFrame(packet_info, mode, lastTx))
               = [source |-> Remote.addr, destination |-> Local.addr,
                  source_port |-> Remote.port, destination_port |-> Local.port,
                  payload |-> UdpData(nitem)]

\* The ten-byte datagram was received as 38 bytes on a Tun device created
\* without packet info.
C18_Witness ==
    /\ last.api = "recv" /\ last.under.tag = "Ok" /\ ndeliv = 1
    /\ ~req.packet_info /\ req.mode = "Tun"
    /\ Len(last.ret.item) = 38 /\ last.bufsize >= 38

\* The reading loop is going on: it is running or suspended.
StreamGoesOn == rdState \in {"runnable", "parked"}

\* C21: the packet stream never signals its end. Every poll returns a packet
\* (Ready(Some)), NotReady or an error, never Ready(None); a read that
\* succeeded with 0 bytes is yielded as an empty packet and leaves the reading
\* loop running; and a reading loop that was going on is over only by a poll
\* that returned an error or by the drop of the adapter.
C21_StreamNeverEnds ==
    /\ [](last.api = "poll" => last.ret.kind \in {"Ready", "NotReady", "Err"})
    /\ [](rdState # "ended")
    /\ []((last.api = "poll" /\ last.under.tag = "Ok" /\ last.under.n = 0) =>
            (last.ret = Ready(<<>>) /\ rdState = "runnable"))
    /\ [][(StreamGoesOn /\ ~StreamGoesOn') =>
            \/ last'.api = "poll" /\ last'.ret.kind = "Err" /\ rdState' = "failed"
            \/ last'.api = "Async::drop" /\ owner' = "closed"]_vars

\* A poll read 0 bytes and yielded the empty packet as the first item; the
\* loop is still running and the next packet is queued for it.
C21_Witness ==
    /\ owner = "async"
    /\ last.api = "poll" /\ last.under = Ok(0) /\ last.ret = Ready(<<>>)
    /\ last.arg = <<>> /\ ndeliv = 1
    /\ rdState = "runnable" /\ rxq # <<>>

\* The packets the writing side submits, whole.
SendItems == {SendItem(k) : k \in 1..(MaxSend + 1)}

\* C22: the sink submits each packet in at most one write call and ignores
\* the byte count of a write that succeeded. A start_send makes at most one
\* attempt, and what it offers is a whole packet of the writer, never what an
\* earlier write left over; when the write returned Ok(n), n being the length
\* of the packet or less, the packet is reported accepted, the kernel has its
\* first n bytes, and the writer goes on with its next whole packet; every
\* packet reported accepted was written exactly once.
C22_ShortWriteIgnored ==
    /\ held \in SendItems /\ held = SendItem(nitem + 1)
    /\ nwire = naccepted
    /\ last.api = "start_send" =>
          /\ last.attempts <= 1
          /\ last.arg \in SendItems
          /\ last.under.tag = "Ok" =>
                /\ last.attempts = 1
                /\ last.under.n <= Len(last.arg)
                /\ last.ret = Ready(<<>>)
                /\ lastTx = Prefix(last.arg, last.under.n)
                /\ held # last.arg

\* The write of the second packet, of two bytes, took one byte: the packet was
\* reported accepted like the first one, the kernel has its first byte only and
\* the writer holds the third packet.
C22_Witness ==
    /\ last.api = "start_send" /\ last.arg = SendItem(2)
    /\ last.under = Ok(1) /\ last.ret = Ready(<<>>)
    /\ lastTx = <<SendItem(2)[1]>> /\ naccepted = 2 /\ nwire = 2
    /\ held = SendItem(3)

====
